---- MODULE Spec2Model ----
(***************************************************************************)
(* BuckUtils (src/src/buckutils/app.py): the page list of BuckUtilsApp,    *)
(* its handlers, the preview pass and the PDFCombiner operations.          *)
(*                                                                         *)
(* Two specifications:                                                     *)
(*   Spec     the Tk application: the handlers of BuckUtilsApp, one        *)
(*            handler at a time (Tk dispatches events on one thread), the  *)
(*            preview pass of an import split at the completion of each    *)
(*            worker future;                                               *)
(*   LibSpec  the module-level functions and PDFCombiner called directly,  *)
(*            as tests/test_combiner.py calls them: the inputs are drawn   *)
(*            in the initial state and one step applies the function.      *)
(*                                                                         *)
(* Python indices are kept zero-based (page_index, listbox indices,        *)
(* _drag_start_index); At(s, i) reads the Python element s[i].             *)
(***************************************************************************)
EXTENDS Integers, Sequences, FiniteSets, TLC

VARIABLES
    HAS_PYPDF,          \* module constant set by the import of pypdf
    gs_installed,       \* what find_ghostscript() returns on this machine
    pages,              \* BuckUtilsApp.pages
    open_readers,       \* BuckUtilsApp._open_readers (the file of each reader)
    drag_start_index,   \* BuckUtilsApp._drag_start_index
    preview_files,      \* BuckUtilsApp._preview_files
    listbox,            \* the labels held by page_listbox
    selection,          \* page_listbox.curselection()
    pc,                 \* where the main thread is: "idle", "adding", "previews", "lib"
    queue,              \* _add_files: the files of the selection not yet imported
    tasks,              \* _generate_previews_in_background: the tasks submitted
    finished,           \* ... the positions in tasks of the futures consumed
    notice,             \* the last message box of the handler that ran last, or "none"
    call                \* the combiner / preview call of the last step, or NoCall

vars == <<HAS_PYPDF, gs_installed, pages, open_readers, drag_start_index,
          preview_files, listbox, selection, pc, queue, tasks, finished,
          notice, call>>

\* Python's None. An Optional value is kept as a tuple: None is the empty
\* tuple, a path is the tuple of its parts, an index i is <<i>>.
None == <<>>

Some(v) == <<v>>

\* the name find_ghostscript() returns where Ghostscript is installed
GsName == <<"gs">>

-----------------------------------------------------------------------------
(* Bounds of the model. *)

MaxTextLen == 3      \* enumerated page texts have at most this many characters
MaxFilesArg == 2     \* PDFCombiner.combine is called with at most this many files
MaxPagesArg == 3     \* PDFCombiner.combine_pages is called directly with at most this many pages
MaxSelect == 2       \* a file dialog selection holds at most this many files
MaxReaders == 2      \* imports stop once _open_readers holds this many readers

-----------------------------------------------------------------------------
(* Sequences. *)

At(s, i) == s[i + 1]

Range(s) == {s[i] : i \in 1..Len(s)}

Take(s, n) == SubSeq(s, 1, IF n < Len(s) THEN n ELSE Len(s))

Rep(s, n) == [i \in 1..(n * Len(s)) |-> s[((i - 1) % Len(s)) + 1]]

SeqsUpTo(S, n) == UNION {[1..k -> S] : k \in 0..n}

\* an exchange that forgets to write the second entry
SwapLosingEntry(s, i, j) == [s EXCEPT ![i + 1] = s[j + 1]]

Swap(s, i, j) == [s EXCEPT ![i + 1] = s[j + 1], ![j + 1] = s[i + 1]]

DelAt(s, i) == SubSeq(s, 1, i) \o SubSeq(s, i + 2, Len(s))

-----------------------------------------------------------------------------
(* The files on disk. A path is kept as its directory, stem and suffix:    *)
(* Path(p).name is stem.ext and Path(p).stem is the stem.                  *)

FileA == [dir |-> "a", stem |-> "x", ext |-> "pdf"]
FileB == [dir |-> "b", stem |-> "x", ext |-> "pdf"]
FileBad == [dir |-> "a", stem |-> "bad", ext |-> "pdf"]

Files == {FileA, FileB, FileBad}

PathName(f) == <<f.stem, f.ext>>

PathStem(f) == f.stem

\* PdfReader(file_path) raises for a file that is no PDF.
Openable(f) == f # FileBad

\* len(reader.pages)
NumPages(f) == IF f = FileA THEN 2 ELSE IF f = FileB THEN 1 ELSE 0

\* reader.pages[i]: the page object
PageObj(f, i) == [of |-> f, num |-> i]

\* reader.pages, in the file's order
ReaderPages(f) == [k \in 1..NumPages(f) |-> PageObj(f, k - 1)]

PageObjects == UNION {Range(ReaderPages(f)) : f \in Files}

-----------------------------------------------------------------------------
(* Text. A string is the sequence of its characters.                       *)

Whitespace == {" ", "\t"}

\* the one character U+2026
Ellipsis == "..."

PreviewLimit == 240

\* "No text preview available for this page."
Placeholder ==
    <<"N", "o", " ", "t", "e", "x", "t", " ", "p", "r", "e", "v", "i", "e", "w", " ", "a", "v", "a", "i", "l", "a", "b", "l", "e", " ", "f", "o", "r", " ", "t", "h", "i", "s", " ", "p", "a", "g", "e", ".">>

\* "Generating preview" and U+2026, the preview a page is appended with
GeneratingPreview ==
    <<"G", "e", "n", "e", "r", "a", "t", "i", "n", "g", " ", "p", "r", "e", "v", "i", "e", "w">> \o <<Ellipsis>>

\* text.split(): the maximal runs of non-whitespace characters, in order.
\* WordStart: the first index >= i of a non-whitespace character (0: none);
\* WordEnd: the last index of the run that starts at s.
WordStart(text, i) ==
    IF \A j \in i..Len(text) : text[j] \in Whitespace THEN 0
    ELSE CHOOSE j \in i..Len(text) :
            /\ text[j] \notin Whitespace
            /\ \A k \in i..(j - 1) : text[k] \in Whitespace

WordEnd(text, s) ==
    CHOOSE e \in s..Len(text) :
        /\ e = Len(text) \/ text[e + 1] \in Whitespace
        /\ \A k \in s..e : text[k] \notin Whitespace

RECURSIVE SplitFrom(_, _, _)
SplitFrom(text, i, acc) ==
    LET s == WordStart(text, i)
    IN  IF s = 0 THEN acc
        ELSE LET e == WordEnd(text, s)
             IN  SplitFrom(text, e + 1, Append(acc, SubSeq(text, s, e)))

Split(text) == SplitFrom(text, 1, <<>>)

\* sep.join(words)
RECURSIVE Join(_, _)
Join(sep, words) ==
    IF words = <<>> THEN <<>>
    ELSE IF Len(words) = 1 THEN words[1]
    ELSE words[1] \o sep \o Join(sep, Tail(words))

\* cleaned = " ".join(text.split())
Cleaned(text) == Join(<<" ">>, Split(text))

\* Cut with the comparison off by one (>= for >)
CutOffByOne(cleaned) ==
    IF Len(cleaned) >= PreviewLimit
    THEN Take(cleaned, PreviewLimit) \o <<Ellipsis>>
    ELSE cleaned

\* (cleaned[:240] + ellipsis) if len(cleaned) > 240 else cleaned
Cut(cleaned) ==
    IF Len(cleaned) > PreviewLimit
    THEN Take(cleaned, PreviewLimit) \o <<Ellipsis>>
    ELSE cleaned

-----------------------------------------------------------------------------
(* _generate_preview_for_page(task), run in a worker process.              *)
(* task = <<file_path, page_index, gs_path>>. env is what the worker meets: *)
(*   reader   "ok" | "raises"    PdfReader / reader.pages[...] (I/O)        *)
(*   extract  "ok" | "none" | "raises"   page.extract_text()               *)
(*   text     the text of the page when extract = "ok"                     *)
(*   run      "ok" | "raises" | "nonzero" | "nofile"   the renderer        *)

\* tmp_dir / f"buckutils_preview_{Path(file_path).stem}_{page_index}.png"
PreviewOutputPath(file_path, page_index) ==
    <<"buckutils_preview", PathStem(file_path), page_index, "png">>

PreviewTextOf(file_path, page_index, env) ==
    IF \/ ~HAS_PYPDF                 \* PdfReader is None: the call raises
       \/ env.reader = "raises"
       \/ ~Openable(file_path)
       \/ page_index >= NumPages(file_path)
    THEN Placeholder
    ELSE LET text == IF env.extract = "ok" THEN env.text ELSE <<>>
             cleaned == Cleaned(text)
         IN  IF cleaned # <<>> THEN Cut(cleaned) ELSE Placeholder

\* PreviewImageOf without the test of result.returncode
PreviewImageIgnoringReturnCode(file_path, page_index, gs_path, env) ==
    IF gs_path = None THEN None
    ELSE IF env.run \in {"ok", "nonzero"} THEN PreviewOutputPath(file_path, page_index)
    ELSE None

PreviewImageOf(file_path, page_index, gs_path, env) ==
    IF gs_path = None THEN None
    ELSE IF env.run = "ok" THEN PreviewOutputPath(file_path, page_index)
    ELSE None

GeneratePreviewForPage(task, env) ==
    <<task[1], task[2],
      PreviewTextOf(task[1], task[2], env),
      PreviewImageOf(task[1], task[2], task[3], env)>>

-----------------------------------------------------------------------------
(* PDFCombiner. The output file is [kind, pages]: absent, a PDF holding    *)
(* the page objects in order, or the partial bytes of a write that failed. *)
(* env is what a call meets:                                               *)
(*   prior   the output file before the call                               *)
(*   io      "ok" | "add_raises" | "open_raises" | "write_raises"          *)
(*   gs_run  "ok" | "nonzero" | "nonzero_partial" | "raises"               *)
(* A call returns [ret, opened, file, msg, backend]: the return value,     *)
(* whether the output file was opened for writing, the output file         *)
(* afterwards, the message box shown and the backend that ran.             *)

Absent == [kind |-> "absent", pages |-> <<>>]

Partial == [kind |-> "partial", pages |-> <<>>]

Pdf(ps) == [kind |-> "pdf", pages |-> ps]

\* PDFCombiner.find_ghostscript()
find_ghostscript == gs_installed

Failed(env, msg, backend) ==
    [ret |-> FALSE, opened |-> FALSE, file |-> env.prior, msg |-> msg, backend |-> backend]

\* with Path(output_file).open("wb") as output: writer.write(output)
WriteOut(writer, env, msg, backend) ==
    IF env.io = "open_raises" THEN Failed(env, msg, backend)
    ELSE IF env.io = "write_raises"
    THEN [ret |-> FALSE, opened |-> TRUE, file |-> Partial, msg |-> msg, backend |-> backend]
    ELSE [ret |-> TRUE, opened |-> TRUE, file |-> Pdf(writer), msg |-> "none", backend |-> backend]

\* a loop over input_files that skips a file whose PdfReader raises
RECURSIVE AddFilesSkippingFailed(_, _)
AddFilesSkippingFailed(input_files, writer) ==
    IF input_files = <<>> THEN [ok |-> TRUE, writer |-> writer]
    ELSE IF ~Openable(Head(input_files))
    THEN AddFilesSkippingFailed(Tail(input_files), writer)
    ELSE AddFilesSkippingFailed(Tail(input_files), writer \o ReaderPages(Head(input_files)))

\* for pdf_path in input_files: reader = PdfReader(pdf_path);
\*     for page in reader.pages: writer.add_page(page)
\* [ok, writer]: ok is FALSE when a PdfReader raised.
RECURSIVE AddFilesToWriter(_, _)
AddFilesToWriter(input_files, writer) ==
    IF input_files = <<>> THEN [ok |-> TRUE, writer |-> writer]
    ELSE IF ~Openable(Head(input_files)) THEN [ok |-> FALSE, writer |-> writer]
    ELSE AddFilesToWriter(Tail(input_files), writer \o ReaderPages(Head(input_files)))

combine_with_pypdf2(input_files, env) ==
    LET r == AddFilesToWriter(input_files, <<>>)
    IN  IF ~r.ok \/ env.io = "add_raises"
        THEN Failed(env, "Failed to combine PDFs", "pypdf")
        ELSE WriteOut(r.writer, env, "Failed to combine PDFs", "pypdf")

\* What the Ghostscript executable writes when it succeeds: the pages of
\* the input files in order (the executable is not code of this program).
RECURSIVE GsPages(_)
GsPages(input_files) ==
    IF input_files = <<>> THEN <<>>
    ELSE ReaderPages(Head(input_files)) \o GsPages(Tail(input_files))

combine_with_ghostscript(input_files, gs_path, env) ==
    IF env.gs_run = "raises"
    THEN Failed(env, "Failed to run Ghostscript", "ghostscript")
    ELSE IF env.gs_run = "nonzero"
    THEN Failed(env, "Ghostscript error", "ghostscript")
    ELSE IF env.gs_run = "nonzero_partial"
    THEN [ret |-> FALSE, opened |-> TRUE, file |-> Partial,
          msg |-> "Ghostscript error", backend |-> "ghostscript"]
    ELSE [ret |-> TRUE, opened |-> TRUE, file |-> Pdf(GsPages(input_files)),
          msg |-> "none", backend |-> "ghostscript"]

\* combine without the test of an empty input_files
combineWithoutEmptyCheck(input_files, env) ==
    IF HAS_PYPDF
    THEN combine_with_pypdf2(input_files, env)
    ELSE LET gs_path == find_ghostscript
         IN  IF gs_path # None
             THEN combine_with_ghostscript(input_files, gs_path, env)
             ELSE Failed(env, "No PDF library found!", "none")

\* combine that tries Ghostscript before pypdf
combineGhostscriptFirst(input_files, env) ==
    IF input_files = <<>>
    THEN Failed(env, "No files selected to combine!", "none")
    ELSE LET gs_path == find_ghostscript
         IN  IF gs_path # None
             THEN combine_with_ghostscript(input_files, gs_path, env)
             ELSE IF HAS_PYPDF
             THEN combine_with_pypdf2(input_files, env)
             ELSE Failed(env, "No PDF library found!", "none")

combine(input_files, env) ==
    IF input_files = <<>>
    THEN Failed(env, "No files selected to combine!", "none")
    ELSE IF HAS_PYPDF
    THEN combine_with_pypdf2(input_files, env)
    ELSE LET gs_path == find_ghostscript
         IN  IF gs_path # None
             THEN combine_with_ghostscript(input_files, gs_path, env)
             ELSE Failed(env, "No PDF library found!", "none")

\* AddPagesToWriter that inserts each page at the front of the writer
RECURSIVE AddPagesAtFront(_, _)
AddPagesAtFront(ps, writer) ==
    IF ps = <<>> THEN writer
    ELSE AddPagesAtFront(Tail(ps), <<Head(ps).page>> \o writer)

\* writer = PdfWriter(); for page in pages: writer.add_page(page.page)
RECURSIVE AddPagesToWriter(_, _)
AddPagesToWriter(ps, writer) ==
    IF ps = <<>> THEN writer
    ELSE AddPagesToWriter(Tail(ps), Append(writer, Head(ps).page))

combine_pages(ps, env) ==
    IF ps = <<>>
    THEN Failed(env, "No pages selected to combine!", "none")
    ELSE IF ~HAS_PYPDF
    THEN Failed(env, "Page-level combining requires pypdf.", "none")
    ELSE IF env.io = "add_raises"
    THEN Failed(env, "Failed to combine pages", "pypdf")
    ELSE WriteOut(AddPagesToWriter(ps, <<>>), env, "Failed to combine pages", "pypdf")

\* PDFPage(source_path, page_index, label, page, preview, preview_image_path)
PDFPage(source_path, page_index, label, page, preview, preview_image_path) ==
    [source_path |-> source_path, page_index |-> page_index, label |-> label,
     page |-> page, preview |-> preview, preview_image_path |-> preview_image_path]

Key(page) == <<page.source_path, page.page_index>>

-----------------------------------------------------------------------------
(* The observation of a call: [op, args, env, res, done].                  *)

NoCall == [op |-> "none", args |-> <<>>, env |-> <<>>, res |-> <<>>, done |-> TRUE]

Pending(op, args, env) == [op |-> op, args |-> args, env |-> env, res |-> <<>>, done |-> FALSE]

Returned(op, args, env, res) == [op |-> op, args |-> args, env |-> env, res |-> res, done |-> TRUE]

\* The state of a BuckUtilsApp after __init__.
AppInit ==
    /\ pages = <<>>
    /\ open_readers = <<>>
    /\ drag_start_index = None
    /\ preview_files = <<>>
    /\ listbox = <<>>
    /\ selection = {}
    /\ queue = <<>>
    /\ tasks = <<>>
    /\ finished = {}
    /\ notice = "none"

appVars == <<pages, open_readers, drag_start_index, preview_files, listbox,
             selection, queue, tasks, finished, notice>>

-----------------------------------------------------------------------------
(* LibSpec: the functions called directly.                                 *)

\* an output file that exists before the call
Stale == Pdf(<<PageObj(FileB, 0)>>)

CombineEnvs ==
    [prior : {Absent, Stale},
     io : {"ok", "add_raises", "open_raises", "write_raises"},
     gs_run : {"ok", "nonzero", "nonzero_partial", "raises"}]

\* page lists a caller can build: entries of the files' pages, and one entry
\* whose page object is not the page its key names
ArgPages ==
    {PDFPage(o.of, o.num, <<PathName(o.of), o.num + 1>>, o, <<"p">>, None) : o \in PageObjects}
    \cup {PDFPage(FileA, 0, <<"odd">>, PageObj(FileB, 0), <<"p">>, None)}

LongTexts ==
    {Rep(<<"a">>, PreviewLimit - 1), Rep(<<"a">>, PreviewLimit),
     Rep(<<"a">>, PreviewLimit + 1),
     Rep(<<"a", "b", "c", " ", "\t">>, 61), Rep(<<"\t", " ", "a", "b", "c">>, 60),
     Placeholder, <<" ">> \o Placeholder \o <<"\t", " ">>, GeneratingPreview}

LibTexts == SeqsUpTo({"a", " ", "\t"}, MaxTextLen) \cup LongTexts

PreviewEnvs ==
    [reader : {"ok", "raises"},
     extract : {"ok", "none", "raises"},
     text : LibTexts,
     run : {"ok", "raises", "nonzero", "nofile"}]

PreviewTasks == {<<f, i, g>> : f \in Files, i \in 0..2, g \in {None, GsName}}

LibInit ==
    /\ AppInit
    /\ pc = "lib"
    /\ HAS_PYPDF \in BOOLEAN
    /\ \/ /\ gs_installed \in {None, GsName}
          /\ \E a \in SeqsUpTo(Files, MaxFilesArg), e \in CombineEnvs :
                call = Pending("combine", a, e)
       \/ /\ gs_installed \in {None, GsName}
          /\ \E a \in SeqsUpTo(ArgPages, MaxPagesArg), e \in CombineEnvs :
                call = Pending("combine_pages", a, e)
       \/ /\ gs_installed = None    \* not read by _generate_preview_for_page
          /\ \E a \in PreviewTasks, e \in PreviewEnvs :
                call = Pending("_generate_preview_for_page", a, e)

CallCombine ==
    /\ pc = "lib" /\ ~call.done /\ call.op = "combine"
    /\ call' = Returned(call.op, call.args, call.env, combine(call.args, call.env))
    /\ UNCHANGED <<HAS_PYPDF, gs_installed, pc, appVars>>

CallCombinePages ==
    /\ pc = "lib" /\ ~call.done /\ call.op = "combine_pages"
    /\ call' = Returned(call.op, call.args, call.env, combine_pages(call.args, call.env))
    /\ UNCHANGED <<HAS_PYPDF, gs_installed, pc, appVars>>

CallGeneratePreview ==
    /\ pc = "lib" /\ ~call.done /\ call.op = "_generate_preview_for_page"
    /\ call' = Returned(call.op, call.args, call.env,
                        GeneratePreviewForPage(call.args, call.env))
    /\ UNCHANGED <<HAS_PYPDF, gs_installed, pc, appVars>>

LibNext == CallCombine \/ CallCombinePages \/ CallGeneratePreview

LibSpec == LibInit /\ [][LibNext]_vars

-----------------------------------------------------------------------------
(* Claims about the functions called directly (LibSpec).                   *)

IsCall(op) == call.done /\ call.op = op

\* C1: combine with an empty input_files list and combine_pages with an
\* empty pages list return False and never open or write the output file:
\* the file is what it was before the call, with either backend installed.
C1_EmptyInputFailsWithoutOutput ==
    (call.done /\ call.op \in {"combine", "combine_pages"} /\ call.args = <<>>)
        => /\ call.res.ret = FALSE
           /\ ~call.res.opened
           /\ call.res.file = call.env.prior

C1_Witness ==
    /\ IsCall("combine") /\ call.args = <<>>
    /\ HAS_PYPDF /\ call.env.io = "ok" /\ call.env.prior = Absent
    /\ call.res.ret = FALSE

\* C2: for every non-empty pages list given to combine_pages, with pypdf
\* available and no write error, the call returns True and the output holds
\* exactly len(pages) pages, page N being the page object of the Nth entry.
C2_CombinePagesKeepsOrder ==
    (IsCall("combine_pages") /\ call.args # <<>> /\ HAS_PYPDF /\ call.env.io = "ok")
        => /\ call.res.ret = TRUE
           /\ call.res.file.kind = "pdf"
           /\ Len(call.res.file.pages) = Len(call.args)
           /\ \A n \in 1..Len(call.args) :
                  call.res.file.pages[n] = call.args[n].page

C2_Witness ==
    /\ IsCall("combine_pages") /\ HAS_PYPDF /\ call.env.io = "ok"
    /\ Len(call.args) = MaxPagesArg
    /\ call.args[1].page # call.args[2].page
    /\ Key(call.args[1]) = Key(call.args[2])
    /\ call.res.ret = TRUE

\* What the worker's text extraction yields for a call of
\* _generate_preview_for_page: the text of the page, or nothing when the
\* reader or the extraction fails.
ExtractedText(c) ==
    IF /\ HAS_PYPDF /\ c.env.reader = "ok" /\ Openable(c.args[1])
       /\ c.args[2] < NumPages(c.args[1]) /\ c.env.extract = "ok"
    THEN c.env.text
    ELSE <<>>

NonWhite(text) == SelectSeq(text, LAMBDA ch : ch \notin Whitespace)

\* t is n cut to 240 characters plus an ellipsis when n is longer
IsCutOf(t, n) ==
    IF Len(n) <= 240 THEN t = n
    ELSE /\ Len(t) = 241
         /\ SubSeq(t, 1, 240) = SubSeq(n, 1, 240)
         /\ t[241] = Ellipsis

\* n is whitespace-normalised: single spaces between words only
IsNormalised(n) ==
    /\ \A i \in 1..Len(n) : n[i] # "\t"
    /\ n # <<>> => n[1] # " " /\ n[Len(n)] # " "
    /\ \A i \in 1..(Len(n) - 1) : ~(n[i] = " " /\ n[i + 1] = " ")

\* C6 as stated: the placeholder is returned whenever extraction yields no
\* text, and a text other than the placeholder exactly when the normalised
\* text is non-empty.
C6_PlaceholderExactlyWhenNoText ==
    IsCall("_generate_preview_for_page")
        => LET n == Cleaned(ExtractedText(call))
           IN  /\ n = <<>> => call.res[3] = Placeholder
               /\ call.res[3] # Placeholder <=> n # <<>>

\* C6 amended: the placeholder is returned whenever extraction yields no
\* text; otherwise the whitespace-normalised text is returned, cut to 240
\* characters plus an ellipsis when longer, and that text is the placeholder
\* only when the normalised page text is itself the placeholder sentence.
C6_PlaceholderWhenNoTextElseCutText ==
    IsCall("_generate_preview_for_page")
        => LET raw == ExtractedText(call)
               n == Cleaned(raw)
           IN  /\ NonWhite(raw) = <<>> => call.res[3] = Placeholder
               /\ NonWhite(raw) # <<>> =>
                    /\ n # <<>>
                    /\ IsNormalised(n)
                    /\ NonWhite(n) = NonWhite(raw)
                    /\ IsCutOf(call.res[3], n)
               /\ call.res[3] = Placeholder => n \in {<<>>, Placeholder}

C6_Witness ==
    /\ IsCall("_generate_preview_for_page")
    /\ Len(Cleaned(ExtractedText(call))) = 240
    /\ call.res[3] = Cleaned(ExtractedText(call))

\* C7: with no renderer (gs_path is None), or when the renderer raises,
\* exits non-zero or writes no file, _generate_preview_for_page returns the
\* file_path and page_index it was given, a text preview and None as the
\* preview image path.
C7_NoImageWithoutRenderer ==
    (IsCall("_generate_preview_for_page")
        /\ (call.args[3] = None \/ call.env.run \in {"raises", "nonzero", "nofile"}))
        => /\ Len(call.res) = 4
           /\ call.res[1] = call.args[1]
           /\ call.res[2] = call.args[2]
           /\ Len(call.res[3]) > 0
           /\ call.res[4] = None

C7_Witness ==
    /\ IsCall("_generate_preview_for_page")
    /\ call.args[3] = GsName /\ call.env.run = "nonzero"
    /\ call.res[4] = None

\* C10: for a non-empty input, combine runs the pypdf backend whenever pypdf
\* is available, otherwise Ghostscript when an executable is found, and
\* otherwise returns False with an error message and writes nothing;
\* combine_pages returns False with an error message whenever pypdf is
\* unavailable, Ghostscript installed or not.
C10_BackendChoice ==
    /\ (IsCall("combine") /\ call.args # <<>>) =>
          /\ HAS_PYPDF => call.res.backend = "pypdf"
          /\ (~HAS_PYPDF /\ gs_installed # None) => call.res.backend = "ghostscript"
          /\ (~HAS_PYPDF /\ gs_installed = None) =>
                /\ call.res.backend = "none"
                /\ call.res.ret = FALSE
                /\ call.res.msg = "No PDF library found!"
                /\ ~call.res.opened
                /\ call.res.file = call.env.prior
    /\ (IsCall("combine_pages") /\ call.args # <<>> /\ ~HAS_PYPDF) =>
          /\ call.res.backend = "none"
          /\ call.res.ret = FALSE
          /\ call.res.msg = "Page-level combining requires pypdf."
          /\ ~call.res.opened
          /\ call.res.file = call.env.prior

C10_Witness ==
    /\ IsCall("combine") /\ call.args # <<>>
    /\ ~HAS_PYPDF /\ gs_installed = GsName
    /\ call.res.backend = "ghostscript" /\ call.res.ret = TRUE

-----------------------------------------------------------------------------
(* BuckUtilsApp: operators on the page list.                               *)

\* f"{Path(file_path).name} - Page {idx + 1}"
Label(file_path, idx) == <<PathName(file_path), idx + 1>>

\* the text of each page on disk
PageText(file_path, idx) ==
    IF file_path = FileA /\ idx = 0 THEN <<"a", " ", "\t", "b">>
    ELSE IF file_path = FileA THEN <<" ", "\t">>
    ELSE <<"c">>

\* _refresh_page_list: the labels inserted into the listbox
RefreshedListbox(ps) == [i \in 1..Len(ps) |-> ps[i].label]

\* _refresh_page_list(select_index): the selection afterwards
RefreshedSelection(ps, select_index) ==
    LET si == IF select_index = None /\ ps # <<>> THEN Some(0) ELSE select_index
    IN  IF si # None /\ 0 <= si[1] /\ si[1] < Len(ps) THEN {si[1]} ELSE {}

\* The loop of _import_pdf_pages over enumerate(reader.pages), from idx on:
\* [pages, tasks] after it. existing is computed once, before the loop.
RECURSIVE ImportLoop(_, _, _, _, _, _)
ImportLoop(file_path, idx, existing, gs_path, ps, ts) ==
    IF idx >= NumPages(file_path) THEN [pages |-> ps, tasks |-> ts]
    ELSE IF <<file_path, idx>> \in existing
    THEN ImportLoop(file_path, idx + 1, existing, gs_path, ps, ts)
    ELSE ImportLoop(file_path, idx + 1, existing, gs_path,
                    Append(ps, PDFPage(file_path, idx, Label(file_path, idx),
                                       At(ReaderPages(file_path), idx),
                                       GeneratingPreview, None)),
                    Append(ts, <<file_path, idx, gs_path>>))

\* _import_pdf_pages after the reader is open, with every page re-appended
\* (no test of existing)
ImportedPagesWithoutExisting(file_path, ps, gs_path) ==
    ImportLoop(file_path, 0, {}, gs_path, ps, <<>>)

\* _import_pdf_pages after the reader is open, with a task for every page of
\* the file, the pages already listed included
ImportedPagesTasksForAll(file_path, ps, gs_path) ==
    [pages |-> ImportLoop(file_path, 0, {Key(ps[i]) : i \in 1..Len(ps)},
                          gs_path, ps, <<>>).pages,
     tasks |-> [k \in 1..NumPages(file_path) |-> <<file_path, k - 1, gs_path>>]]

\* _import_pdf_pages after the reader is open: [pages, tasks]
ImportedPages(file_path, ps, gs_path) ==
    ImportLoop(file_path, 0, {Key(ps[i]) : i \in 1..Len(ps)}, gs_path, ps, <<>>)

\* _import_pdf_pages with the reader of a file that failed to open kept
import_pdf_pages_keeping_reader(file_path, ps, readers, shown) ==
    IF ~HAS_PYPDF
    THEN [pages |-> ps, open_readers |-> readers, tasks |-> <<>>,
          notice |-> "Missing PDF Support"]
    ELSE LET r == ImportedPages(file_path, ps, find_ghostscript)
         IN  [pages |-> r.pages, open_readers |-> Append(readers, file_path),
              tasks |-> r.tasks,
              notice |-> IF Openable(file_path) THEN shown ELSE "Unable to open"]

\* _import_pdf_pages(file_path), up to the submission of the preview tasks:
\* [pages, open_readers, tasks, notice]; shown is the last message box of
\* this handler so far
import_pdf_pages(file_path, ps, readers, shown) ==
    IF ~HAS_PYPDF
    THEN [pages |-> ps, open_readers |-> readers, tasks |-> <<>>,
          notice |-> "Missing PDF Support"]
    ELSE IF ~Openable(file_path)
    THEN [pages |-> ps, open_readers |-> readers, tasks |-> <<>>,
          notice |-> "Unable to open"]
    ELSE LET r == ImportedPages(file_path, ps, find_ghostscript)
         IN  [pages |-> r.pages, open_readers |-> Append(readers, file_path),
              tasks |-> r.tasks, notice |-> shown]

\* _apply_preview_result: the first entry with the key, 0 when there is none
RECURSIVE FirstMatch(_, _, _, _)
FirstMatch(ps, i, file_path, page_index) ==
    IF i > Len(ps) THEN 0
    ELSE IF ps[i].source_path = file_path /\ ps[i].page_index = page_index THEN i
    ELSE FirstMatch(ps, i + 1, file_path, page_index)

\* _apply_preview_result that writes to the first entry still waiting for
\* its preview, whatever its key
ApplyPreviewResultToFirstWaiting(ps, pf, file_path, page_index, preview, preview_image_path) ==
    LET waiting == {i \in 1..Len(ps) : ps[i].preview = GeneratingPreview}
    IN  IF waiting = {} THEN [pages |-> ps, preview_files |-> pf]
        ELSE LET i == CHOOSE x \in waiting : \A y \in waiting : x <= y
             IN  [pages |-> [ps EXCEPT ![i].preview = preview,
                                        ![i].preview_image_path = preview_image_path],
                  preview_files |-> IF preview_image_path # None
                                    THEN Append(pf, preview_image_path) ELSE pf]

\* _apply_preview_result: [pages, preview_files] afterwards
ApplyPreviewResult(ps, pf, file_path, page_index, preview, preview_image_path) ==
    LET i == FirstMatch(ps, 1, file_path, page_index)
    IN  IF i = 0 THEN [pages |-> ps, preview_files |-> pf]
        ELSE [pages |-> [ps EXCEPT ![i].preview = preview,
                                   ![i].preview_image_path = preview_image_path],
              preview_files |-> IF preview_image_path # None
                                THEN Append(pf, preview_image_path) ELSE pf]

\* list(curselection()) without the reverse: the selected indices, smallest
\* first, so that each deletion shifts the indices still to be deleted
RECURSIVE Ascending(_)
Ascending(S) ==
    IF S = {} THEN <<>>
    ELSE LET m == CHOOSE x \in S : \A y \in S : x <= y
         IN  <<m>> \o Ascending(S \ {m})

\* list(curselection()) reversed: the selected indices, largest first
RECURSIVE Descending(_)
Descending(S) ==
    IF S = {} THEN <<>>
    ELSE LET m == CHOOSE x \in S : \A y \in S : y <= x
         IN  <<m>> \o Descending(S \ {m})

\* for idx in selected: del self.pages[idx]
RECURSIVE DeleteEach(_, _)
DeleteEach(ps, selected) ==
    IF selected = <<>> THEN ps
    ELSE DeleteEach(DelAt(ps, Head(selected)), Tail(selected))

\* page_listbox.nearest(event.y): an index of the listbox, -1 when it is empty
Nearest == IF listbox = <<>> THEN {-1} ELSE 0..(Len(listbox) - 1)

\* a main loop that dispatches input events during the preview pass
MainLoopDispatchingInput == pc \in {"idle", "previews"}

\* Tk runs one callback at a time, and a callback that has not returned
\* (update_idletasks dispatches no input event) keeps the others waiting.
MainLoopIdle == pc = "idle"

\* the list handed over in reverse
ExportArgumentReversed(ps) == [i \in 1..Len(ps) |-> ps[Len(ps) + 1 - i]]

\* self.combiner.combine_pages(self.pages, output_file): the list handed over
ExportArgument(ps) == ps

-----------------------------------------------------------------------------
(* Spec: the handlers of BuckUtilsApp.                                     *)

Init ==
    /\ AppInit
    /\ pc = "idle"
    /\ HAS_PYPDF \in BOOLEAN
    /\ gs_installed \in {None, GsName}
    /\ call = NoCall

\* what the machine has installed: fixed while the program runs
machine == <<HAS_PYPDF, gs_installed>>

\* what filedialog.askopenfilenames can return: distinct files, in order
Selections ==
    {fs \in SeqsUpTo(Files, MaxSelect) :
        \A i, j \in 1..Len(fs) : i # j => fs[i] # fs[j]}

\* _add_files, up to its loop over the files
AddFiles(files) ==
    /\ MainLoopIdle
    /\ HAS_PYPDF =>
         Len(open_readers) + Cardinality({f \in Range(files) : Openable(f)}) <= MaxReaders
    /\ IF files = <<>>
       THEN UNCHANGED <<pc, queue>>
       ELSE pc' = "adding" /\ queue' = files
    /\ notice' = "none"
    /\ call' = NoCall
    /\ UNCHANGED <<machine, pages, open_readers, drag_start_index, preview_files,
                   listbox, selection, tasks, finished>>

\* _import_pdf_pages(file_path) for the next file of the selection, up to
\* the submission of the preview tasks
ImportPdfPages ==
    /\ pc = "adding" /\ queue # <<>>
    /\ LET r == import_pdf_pages(Head(queue), pages, open_readers, notice)
       IN  /\ pages' = r.pages
           /\ open_readers' = r.open_readers
           /\ notice' = r.notice
           /\ IF r.tasks # <<>>
              THEN pc' = "previews" /\ tasks' = r.tasks /\ UNCHANGED queue
              ELSE queue' = Tail(queue) /\ UNCHANGED <<pc, tasks>>
    /\ UNCHANGED <<machine, drag_start_index, preview_files, listbox, selection,
                   finished, call>>

\* what a worker meets for a task of the application: the page was just read
WorkerEnvs(task) ==
    [reader : {"ok"}, extract : {"ok"}, text : {PageText(task[1], task[2])},
     run : {"ok", "nonzero"}]

\* as_completed yields future k and future.result() returns: the result is
\* applied to the list
FutureCompleted(k) ==
    /\ pc = "previews" /\ k \in (1..Len(tasks)) \ finished
    /\ \E e \in WorkerEnvs(tasks[k]) :
          LET res == GeneratePreviewForPage(tasks[k], e)
              r == ApplyPreviewResult(pages, preview_files, res[1], res[2], res[3], res[4])
          IN  /\ pages' = r.pages
              /\ preview_files' = r.preview_files
    /\ finished' = finished \cup {k}
    /\ UNCHANGED <<machine, open_readers, drag_start_index, listbox, selection,
                   pc, queue, tasks, notice, call>>

\* as_completed yields future k and future.result() raises (the worker
\* process died): the result is skipped
FutureRaised(k) ==
    /\ pc = "previews" /\ k \in (1..Len(tasks)) \ finished
    /\ finished' = finished \cup {k}
    /\ UNCHANGED <<machine, pages, open_readers, drag_start_index, preview_files,
                   listbox, selection, pc, queue, tasks, notice, call>>

\* the end of _generate_previews_in_background and of _import_pdf_pages
PreviewsDone ==
    /\ pc = "previews" /\ finished = 1..Len(tasks)
    /\ pc' = "adding"
    /\ queue' = Tail(queue)
    /\ tasks' = <<>>
    /\ finished' = {}
    /\ UNCHANGED <<machine, pages, open_readers, drag_start_index, preview_files,
                   listbox, selection, notice, call>>

\* _add_files after its loop: self._refresh_page_list()
FinishAddFiles ==
    /\ pc = "adding" /\ queue = <<>>
    /\ listbox' = RefreshedListbox(pages)
    /\ selection' = RefreshedSelection(pages, None)
    /\ pc' = "idle"
    /\ UNCHANGED <<machine, pages, open_readers, drag_start_index, preview_files,
                   queue, tasks, finished, notice, call>>

\* the user changes the selection of the listbox (selectmode EXTENDED)
ListboxSelect(S) ==
    /\ MainLoopIdle
    /\ S \subseteq 0..(Len(listbox) - 1) /\ S # selection
    /\ selection' = S
    /\ notice' = "none"
    /\ call' = NoCall
    /\ UNCHANGED <<machine, pages, open_readers, drag_start_index, preview_files,
                   listbox, pc, queue, tasks, finished>>

RemoveSelected ==
    /\ MainLoopIdle
    /\ pages' = DeleteEach(pages, Descending(selection))
    /\ listbox' = RefreshedListbox(pages')
    /\ selection' = RefreshedSelection(pages', None)
    /\ notice' = "none"
    /\ call' = NoCall
    /\ UNCHANGED <<machine, open_readers, drag_start_index, preview_files,
                   pc, queue, tasks, finished>>

StartDrag(index) ==
    /\ MainLoopIdle
    /\ index \in Nearest
    /\ IF 0 <= index /\ index < Len(pages)
       THEN drag_start_index' = Some(index) /\ selection' = {index}
       ELSE UNCHANGED <<drag_start_index, selection>>
    /\ notice' = "none"
    /\ call' = NoCall
    /\ UNCHANGED <<machine, pages, open_readers, preview_files, listbox,
                   pc, queue, tasks, finished>>

OnDragMotion(target_index) ==
    /\ MainLoopIdle
    /\ target_index \in Nearest
    /\ call' = NoCall
    /\ IF drag_start_index = None
       THEN notice' = "none" /\ UNCHANGED <<pages, drag_start_index, listbox, selection>>
       ELSE IF \/ target_index = drag_start_index[1]
               \/ target_index < 0
               \/ target_index >= Len(pages)
       THEN notice' = "none" /\ UNCHANGED <<pages, drag_start_index, listbox, selection>>
       ELSE IF drag_start_index[1] >= Len(pages)
       THEN \* self.pages[self._drag_start_index] raises before any assignment
            /\ notice' = "IndexError"
            /\ UNCHANGED <<pages, drag_start_index, listbox, selection>>
       ELSE /\ pages' = Swap(pages, drag_start_index[1], target_index)
            /\ drag_start_index' = Some(target_index)
            /\ listbox' = RefreshedListbox(pages')
            /\ selection' = RefreshedSelection(pages', Some(target_index))
            /\ notice' = "none"
    /\ UNCHANGED <<machine, open_readers, preview_files, pc, queue, tasks, finished>>

EndDrag ==
    /\ MainLoopIdle
    /\ drag_start_index' = None
    /\ notice' = "none"
    /\ call' = NoCall
    /\ UNCHANGED <<machine, pages, open_readers, preview_files, listbox, selection,
                   pc, queue, tasks, finished>>

ClearFiles ==
    /\ MainLoopIdle
    /\ listbox' = <<>>
    /\ selection' = {}
    /\ pages' = <<>>
    /\ open_readers' = <<>>
    /\ drag_start_index' = None
    /\ preview_files' = <<>>
    /\ notice' = "none"
    /\ call' = NoCall
    /\ UNCHANGED <<machine, pc, queue, tasks, finished>>

\* selected = curselection(); selected[0] is the smallest selected index
First(S) == CHOOSE x \in S : \A y \in S : x <= y

MoveUp ==
    /\ MainLoopIdle
    /\ IF selection = {} \/ First(selection) = 0
       THEN UNCHANGED <<pages, listbox, selection>>
       ELSE LET idx == First(selection)
            IN  /\ pages' = Swap(pages, idx, idx - 1)
                /\ listbox' = RefreshedListbox(pages')
                /\ selection' = RefreshedSelection(pages', Some(idx - 1))
    /\ notice' = "none"
    /\ call' = NoCall
    /\ UNCHANGED <<machine, open_readers, drag_start_index, preview_files,
                   pc, queue, tasks, finished>>

MoveDown ==
    /\ MainLoopIdle
    /\ IF selection = {} \/ First(selection) = Len(pages) - 1
       THEN UNCHANGED <<pages, listbox, selection>>
       ELSE LET idx == First(selection)
            IN  /\ pages' = Swap(pages, idx, idx + 1)
                /\ listbox' = RefreshedListbox(pages')
                /\ selection' = RefreshedSelection(pages', Some(idx + 1))
    /\ notice' = "none"
    /\ call' = NoCall
    /\ UNCHANGED <<machine, open_readers, drag_start_index, preview_files,
                   pc, queue, tasks, finished>>

\* what a call of combine_pages from the application meets: the write
\* succeeds or the output cannot be opened (LibSpec draws every outcome)
ExportEnvs ==
    [prior : {Absent}, io : {"ok", "open_raises"}, gs_run : {"ok"}]

\* _combine_pdfs; output_file is "" when the save dialog is cancelled
CombinePdfs(output_file) ==
    /\ MainLoopIdle
    /\ IF pages = <<>>
       THEN notice' = "No Pages" /\ call' = NoCall
       ELSE IF output_file = ""
       THEN notice' = "none" /\ call' = NoCall
       ELSE \E e \in ExportEnvs :
               LET arg == ExportArgument(pages)
                   res == combine_pages(arg, e)
               IN  /\ call' = Returned("combine_pages", arg, e, res)
                   /\ notice' = IF res.ret THEN "Success!" ELSE res.msg
    /\ UNCHANGED <<machine, pages, open_readers, drag_start_index, preview_files,
                   listbox, selection, pc, queue, tasks, finished>>

Next ==
    \/ \E files \in Selections : AddFiles(files)
    \/ ImportPdfPages
    \/ \E k \in 1..Len(tasks) : FutureCompleted(k)
    \/ \E k \in 1..Len(tasks) : FutureRaised(k)
    \/ PreviewsDone
    \/ FinishAddFiles
    \/ \E S \in SUBSET (0..(Len(listbox) - 1)) : ListboxSelect(S)
    \/ RemoveSelected
    \/ \E index \in Nearest : StartDrag(index)
    \/ \E target_index \in Nearest : OnDragMotion(target_index)
    \/ EndDrag
    \/ ClearFiles
    \/ MoveUp
    \/ MoveDown
    \/ \E output_file \in {"", "combined.pdf"} : CombinePdfs(output_file)

Spec == Init /\ [][Next]_vars

-----------------------------------------------------------------------------
(* Claims about the application (Spec).                                    *)

Keys(ps) == [i \in 1..Len(ps) |-> Key(ps[i])]

\* C3: in every reachable state, BuckUtilsApp.pages holds no two entries
\* with the same (source_path, page_index).
C3_NoDuplicatePages ==
    \A i, j \in 1..Len(pages) : i # j => Key(pages[i]) # Key(pages[j])

\* a file was imported a second time while its pages were listed
C3_Witness ==
    /\ pc = "idle"
    /\ open_readers = <<FileA, FileA>>
    /\ Len(pages) = 2

\* the main thread is about to run _import_pdf_pages(Head(queue))
AtImport == pc = "adding" /\ queue # <<>>

\* the page indices of file f that the list does not hold
MissingIndices(f, ps) ==
    {i \in 0..(NumPages(f) - 1) : \A k \in 1..Len(ps) : Key(ps[k]) # <<f, i>>}

\* C4: importing a file whose pages are all listed leaves the list as it is
\* (entries, order, preview text, image path) and submits no preview task;
\* in general an import appends, at the end, exactly the pages of the file
\* whose key is missing, and leaves every existing entry at its position.
C4_ReimportAppendsOnlyMissing ==
    [][(AtImport /\ HAS_PYPDF /\ Openable(Head(queue))) =>
        LET f == Head(queue)
            n == Len(pages)
            missing == MissingIndices(f, pages)
        IN  /\ Len(pages') = n + Cardinality(missing)
            /\ SubSeq(pages', 1, n) = pages
            /\ \A k \in (n + 1)..Len(pages') :
                  /\ pages'[k].source_path = f
                  /\ pages'[k].page_index \in missing
            /\ \A k, l \in (n + 1)..Len(pages') :
                  k < l => pages'[k].page_index < pages'[l].page_index
            /\ missing = {} =>
                  /\ pages' = pages
                  /\ tasks' = <<>>
                  /\ pc' = "adding"
                  /\ preview_files' = preview_files
       ]_vars

\* FileA was imported twice and only the two results of the first pass
\* were ever applied: the second import found both pages listed
C4_Witness ==
    /\ open_readers = <<FileA, FileA>>
    /\ Len(pages) = 2
    /\ \A i \in 1..Len(pages) : pages[i].preview_image_path # None
    /\ Len(preview_files) = 2
    /\ pc = "adding" /\ queue = <<>> /\ tasks = <<>>

\* C5: the sequence of pages _combine_pdfs hands to combine_pages, and so
\* the pages written, is the list BuckUtilsApp.pages in its current order;
\* the export does not change the list.
C5_ExportIsTheListInOrder ==
    /\ [](IsCall("combine_pages") =>
            /\ call.args = pages
            /\ call.res.ret =>
                 call.res.file = Pdf([i \in 1..Len(pages) |-> pages[i].page]))
    /\ [][call' # NoCall => pages' = pages]_vars

\* an export of three pages in an order that no import produces
C5_Witness ==
    /\ IsCall("combine_pages") /\ call.res.ret
    /\ Len(pages) = 3
    /\ Key(pages[1]) = <<FileA, 1>>
    /\ Key(pages[2]) = <<FileB, 0>>

\* the positions of the futures consumed by this step
Consumed == finished' \ finished

\* C8: an import submits exactly one preview task per page it appends and
\* none for a page already listed; the tasks of a pass have pairwise
\* distinct keys; a result that comes back is written to exactly one entry,
\* the one with the result's key; and between the submission and the last
\* result no other handler changes the list.
C8_OneTaskPerNewPageAppliedByKey ==
    /\ [](pc = "previews" =>
            /\ \A k, l \in 1..Len(tasks) :
                  k # l => <<tasks[k][1], tasks[k][2]>> # <<tasks[l][1], tasks[l][2]>>
            /\ \A k \in 1..Len(tasks) :
                  Cardinality({i \in 1..Len(pages) :
                                  Key(pages[i]) = <<tasks[k][1], tasks[k][2]>>}) = 1)
    /\ [][AtImport =>
            LET n == Len(pages)
                submitted == IF pc' = "previews" THEN tasks' ELSE <<>>
            IN  /\ Len(submitted) = Len(pages') - n
                /\ \A k \in 1..Len(submitted) :
                      <<submitted[k][1], submitted[k][2]>> = Key(pages'[n + k])
         ]_vars
    /\ [][pc = "previews" =>
            /\ Keys(pages') = Keys(pages)
            /\ <<listbox', selection', drag_start_index', open_readers', tasks'>>
                  = <<listbox, selection, drag_start_index, open_readers,
                      IF pc' = "previews" THEN tasks ELSE <<>> >>
            /\ \A i \in 1..Len(pages) :
                  pages'[i] # pages[i] =>
                     /\ Cardinality(Consumed) = 1
                     /\ \A k \in Consumed : Key(pages[i]) = <<tasks[k][1], tasks[k][2]>>
                     /\ \A j \in 1..Len(pages) : j # i => pages'[j] = pages[j]
         ]_vars

\* the second task of a pass completed first, with an older entry listed
C8_Witness ==
    /\ pc = "previews"
    /\ Len(tasks) = 2 /\ finished = {2}
    /\ Len(pages) = 3
    /\ pages[2].preview = GeneratingPreview
    /\ pages[3].preview # GeneratingPreview

\* C9: in _add_files a file that fails to open is skipped with an error
\* notice: no entry and no reader is added, the entries are unchanged, the
\* loop goes on with the rest of the selection, each file imported in
\* selection order, and the list box is refreshed at the end.
C9_FailedFileIsSkipped ==
    /\ [][(AtImport /\ HAS_PYPDF /\ Head(queue) = FileBad) =>
            /\ pages' = pages
            /\ open_readers' = open_readers
            /\ notice' = "Unable to open"
            /\ pc' = "adding"
            /\ queue' = Tail(queue)
         ]_vars
    /\ [][(AtImport /\ HAS_PYPDF /\ Head(queue) # FileBad) =>
            /\ open_readers' = Append(open_readers, Head(queue))
            /\ \/ pc' = "adding" /\ queue' = Tail(queue)
               \/ pc' = "previews" /\ queue' = queue
         ]_vars
    /\ [][pc = "previews" =>
            \/ pc' = "previews" /\ queue' = queue
            \/ pc' = "adding" /\ queue' = Tail(queue)
         ]_vars
    /\ [][(pc = "adding" /\ queue = <<>>) =>
            /\ pc' = "idle"
            /\ pages' = pages
            /\ listbox' = [i \in 1..Len(pages) |-> pages[i].label]
         ]_vars

\* FileBad was skipped and FileA, of the same selection, was imported
C9_Witness ==
    /\ pc = "idle"
    /\ notice = "Unable to open"
    /\ open_readers = <<FileB, FileA>>
    /\ Len(pages) = 3
    /\ Len(listbox) = 3

\* the list after the result of task k, met with worker environment e, is
\* applied to the list ps
AfterResult(ps, k, e) ==
    LET res == GeneratePreviewForPage(tasks[k], e)
    IN  ApplyPreviewResult(ps, <<>>, res[1], res[2], res[3], res[4]).pages

\* C11: the previews of the entries after a pass do not depend on the order
\* in which the futures complete: the results of any two futures of a pass
\* commute on the list, each entry only ever holds a result computed for
\* its own key, and applying a result changes no other entry, nor the order
\* or the length of the list.
C11_ResultsCommute ==
    /\ [](pc = "previews" =>
            \A k, l \in (1..Len(tasks)) \ finished :
               k # l =>
                  \A e1 \in WorkerEnvs(tasks[k]), e2 \in WorkerEnvs(tasks[l]) :
                     AfterResult(AfterResult(pages, k, e1), l, e2)
                        = AfterResult(AfterResult(pages, l, e2), k, e1))
    /\ [](\A i \in 1..Len(pages) :
            /\ pages[i].preview \in
                  {GeneratingPreview,
                   IF Cleaned(PageText(pages[i].source_path, pages[i].page_index)) = <<>>
                   THEN Placeholder
                   ELSE Cleaned(PageText(pages[i].source_path, pages[i].page_index))}
            /\ pages[i].preview_image_path \in
                  {None, <<"buckutils_preview", pages[i].source_path.stem,
                           pages[i].page_index, "png">>})
    /\ [][pc = "previews" =>
            /\ Keys(pages') = Keys(pages)
            /\ Cardinality({i \in 1..Len(pages) : pages'[i] # pages[i]}) <= 1
         ]_vars

\* both futures of a pass were consumed, the second task's result first
C11_Witness ==
    /\ pc = "previews"
    /\ Len(tasks) = 2 /\ finished = {1, 2}
    /\ Len(preview_files) = 2
    /\ preview_files[1][3] = 1 /\ preview_files[2][3] = 0
    /\ \A i \in 1..Len(pages) : pages[i].preview # GeneratingPreview

\* qs is ps with exactly the entries at the 0-based indices i and j exchanged
ExchangedAt(ps, qs, i, j) ==
    /\ i # j
    /\ 0 <= i /\ i < Len(ps) /\ 0 <= j /\ j < Len(ps)
    /\ Len(qs) = Len(ps)
    /\ At(qs, i) = At(ps, j) /\ At(qs, j) = At(ps, i)
    /\ \A n \in 0..(Len(ps) - 1) : (n # i /\ n # j) => At(qs, n) = At(ps, n)

\* qs holds the entries of ps, each as often as ps does
PermutationOf(ps, qs) ==
    /\ Len(qs) = Len(ps)
    /\ \A x \in Range(ps) \cup Range(qs) :
          Cardinality({n \in 1..Len(ps) : ps[n] = x})
             = Cardinality({n \in 1..Len(qs) : qs[n] = x})

\* C12: _move_up, _move_down and _on_drag_motion leave pages unchanged or
\* exchange exactly two entries, so the list stays a permutation of the
\* same length. Stated of every step that changes the list: if it is a
\* _move_up, there is a selection, its first index idx is not 0, and
\* exactly idx and idx - 1 were exchanged; if it is a _move_down, idx is
\* not len(pages) - 1 and exactly idx and idx + 1 were exchanged; if it is
\* an _on_drag_motion, exactly the drag start and the target were
\* exchanged; after the exchange the selection is the moved page's new
\* index. (So without a selection or at the boundary the list is unchanged.)
C12_ReorderSwapsTwoOrNothing ==
    [][pages' # pages =>
         /\ MoveUp =>
               /\ PermutationOf(pages, pages')
               /\ \E idx \in selection :
                     /\ \A y \in selection : idx <= y
                     /\ idx # 0
                     /\ ExchangedAt(pages, pages', idx, idx - 1)
                     /\ selection' = {idx - 1}
         /\ MoveDown =>
               /\ PermutationOf(pages, pages')
               /\ \E idx \in selection :
                     /\ \A y \in selection : idx <= y
                     /\ idx # Len(pages) - 1
                     /\ ExchangedAt(pages, pages', idx, idx + 1)
                     /\ selection' = {idx + 1}
         /\ \A t \in Nearest : OnDragMotion(t) =>
               /\ PermutationOf(pages, pages')
               /\ drag_start_index # None
               /\ ExchangedAt(pages, pages', drag_start_index[1], t)
               /\ selection' = {t}
      ]_vars

\* the second page of a file was moved above the first and is selected
C12_Witness ==
    /\ pc = "idle"
    /\ Len(pages) = 2
    /\ pages[1].source_path = pages[2].source_path
    /\ pages[1].page_index = 1 /\ pages[2].page_index = 0
    /\ selection = {0}

\* the 0-based indices of ps that are not in S
KeptIndices(ps, S) == {n \in 0..(Len(ps) - 1) : n \notin S}

\* C13: _remove_selected removes exactly the entries at the selected
\* indices: the list afterwards is the old list restricted to the indices
\* that were not selected, in unchanged relative order, shorter by the
\* number of selected indices; with an empty selection it is unchanged.
C13_RemoveSelectedRemovesExactlyTheSelection ==
    [][RemoveSelected =>
         /\ selection \subseteq 0..(Len(pages) - 1)
         /\ Len(pages') = Len(pages) - Cardinality(selection)
         /\ \A n \in KeptIndices(pages, selection) :
               At(pages', Cardinality({m \in KeptIndices(pages, selection) : m < n}))
                  = At(pages, n)
         /\ selection = {} => pages' = pages
      ]_vars

\* the first two of three pages were removed: the page of the second file
\* is left alone although the first file is still open
C13_Witness ==
    /\ pc = "idle"
    /\ Len(open_readers) = 2
    /\ Len(pages) = 1
    /\ pages[1].source_path = open_readers[2]
    /\ NumPages(open_readers[1]) = 2
    /\ selection = {}

\* the call met a failure: an input file that does not parse, or an error
\* while adding pages, opening the output or writing it
MetFailure ==
    \/ call.env.io # "ok"
    \/ call.op = "combine" /\ \E i \in 1..Len(call.args) : ~Openable(call.args[i])

\* C14: combine_with_pypdf2 (combine with pypdf present and a non-empty
\* list) and combine_pages always return, and return False on every
\* failure; combine_with_pypdf2 reads all input files before it opens the
\* output, so when an input file fails to parse the call returns False with
\* the output file neither created nor truncated, and a call that returns
\* True wrote the pages of every input file: no failing input is skipped.
C14_FailuresAreReturnedAsFalse ==
    (/\ call.done /\ call.op \in {"combine", "combine_pages"}
     /\ HAS_PYPDF /\ call.args # <<>>)
        => /\ call.res.ret \in BOOLEAN
           /\ call.res.ret = ~MetFailure
           /\ ~call.res.ret => call.res.msg \in {"Failed to combine PDFs",
                                                  "Failed to combine pages"}
           /\ (call.op = "combine" /\ \E i \in 1..Len(call.args) : ~Openable(call.args[i]))
                 => /\ ~call.res.opened
                    /\ call.res.file = call.env.prior
           /\ (call.op = "combine" /\ call.res.ret)
                 => /\ \A i \in 1..Len(call.args) : Openable(call.args[i])
                    /\ call.res.file = Pdf(GsPages(call.args))

\* a file that parses followed by one that does not, over an existing
\* output file: False, and the existing file is as it was
C14_Witness ==
    /\ IsCall("combine") /\ HAS_PYPDF
    /\ Len(call.args) = 2
    /\ Openable(call.args[1]) /\ ~Openable(call.args[2])
    /\ call.env.io = "ok" /\ call.env.prior = Stale
    /\ call.res.ret = FALSE
    /\ call.res.file = Stale

\* C15: in every reachable state _drag_start_index is None or a valid
\* index of pages (0 <= _drag_start_index < len(pages)), so the exchange
\* in _on_drag_motion never indexes the list out of range, also when pages
\* are removed or the list is cleared between a drag start and the next
\* drag motion.
C15_DragStartIndexIsValid ==
    /\ \/ drag_start_index = None
       \/ 0 <= drag_start_index[1] /\ drag_start_index[1] < Len(pages)
    /\ notice # "IndexError"

\* C16: no two entries of pages with different (source_path, page_index)
\* keys hold the same non-null preview_image_path, for every sequence of
\* imports, including imports of two files with the same stem in different
\* directories.
C16_PreviewImagePathsAreDistinct ==
    \A i, j \in 1..Len(pages) :
       (/\ Key(pages[i]) # Key(pages[j])
        /\ pages[i].preview_image_path # None)
          => pages[i].preview_image_path # pages[j].preview_image_path

\* C17: when _generate_previews_in_background has returned, every page for
\* which a task was submitted no longer carries the "Generating preview"
\* text it was appended with: its preview is extracted text or the fixed
\* placeholder, also when a worker future ended with an exception. Every
\* page is appended together with a task of the pass that follows, so
\* outside a pass no page carries the initial text.
C17_NoPageLeftGenerating ==
    pc # "previews" =>
       \A i \in 1..Len(pages) : pages[i].preview # GeneratingPreview

====
